---- MODULE Spec2Model ----
(***************************************************************************)
(* Model of dft.py: the direct O(N^2) Discrete Fourier Transform dft(x)    *)
(* and its inverse idft(X) on lists of (real, imag) pairs, together with   *)
(* the drivers that call them (test_dft, test1, compare_time).             *)
(*                                                                         *)
(* Arithmetic.  The code computes in binary floating point with math.cos   *)
(* and math.sin.  The model computes exactly in the field Q(sqrt 3): a     *)
(* number is <<p, q, d>>, standing for (p + q*sqrt(3)) / d, with d > 0 and *)
(* gcd(p, q, d) = 1.  All sines and cosines of the angles 2*pi*k*n/N are   *)
(* in that field when N divides 12, so every list length in Lengths is     *)
(* computed without approximation; what the model leaves out is the        *)
(* rounding error of the floating-point operations (about 1e-16 relative). *)
(* A non-finite float (NaN, +Inf, -Inf) is the number with d = 0: every    *)
(* operation with a non-finite operand gives a non-finite result.          *)
(***************************************************************************)
EXTENDS Integers, Sequences, FiniteSets, TLC

VARIABLES samples, X, x_inv, X_exp, raised, pc, y, Y, ab, Z

vars == <<samples, X, x_inv, X_exp, raised, pc, y, Y, ab, Z>>

----------------------------------------------------------------------------
(* Bounds of the model *)

\* largest real part of a generated sample (real parts are -1 .. MaxRe)
MaxRe == 2
\* largest imaginary part of a generated sample (imaginary parts are 0 .. MaxIm)
MaxIm == 1
\* largest scalar of the linear combinations (scalars are -1 .. MaxScalar)
MaxScalar == 1

\* list lengths N of the model: 0 and the lengths up to 4 that divide 12
Lengths == {0, 1, 2, 3, 4}

----------------------------------------------------------------------------
(* Exact numbers (p + q*sqrt(3)) / d *)

Abs(i) == IF i < 0 THEN -i ELSE i

RECURSIVE GCD(_, _)
GCD(i, j) == IF j = 0 THEN i ELSE GCD(j, i % j)

\* the float nan / inf: absorbing for every operation
NaN == <<0, 0, 0>>

IsFinite(a) == a[3] # 0

Norm(p, q, d) ==
    LET g == GCD(GCD(Abs(p), Abs(q)), d)
    IN  <<p \div g, q \div g, d \div g>>

Num(i) == <<i, 0, 1>>

Zero == Num(0)
One == Num(1)

Add(a, b) ==
    IF a[3] = 0 \/ b[3] = 0 THEN NaN
    ELSE IF a[3] = 1 /\ b[3] = 1 THEN <<a[1] + b[1], a[2] + b[2], 1>>
    ELSE Norm(a[1] * b[3] + b[1] * a[3], a[2] * b[3] + b[2] * a[3], a[3] * b[3])

Neg(a) == <<-a[1], -a[2], a[3]>>

Sub(a, b) == Add(a, Neg(b))

Mul(a, b) ==
    IF a[3] = 0 \/ b[3] = 0 THEN NaN
    ELSE Norm(a[1] * b[1] + 3 * a[2] * b[2], a[1] * b[2] + a[2] * b[1], a[3] * b[3])

\* a / N for a list length N >= 1
DivN(a, N) == IF a[3] = 0 THEN NaN ELSE Norm(a[1], a[2], a[3] * N)

----------------------------------------------------------------------------
(* math.cos and math.sin at the angles the transforms use *)

Half == <<1, 0, 2>>
HalfSqrt3 == <<0, 1, 2>>

\* cos and sin of t twelfths of a turn, t = 0 .. 11, at index t + 1
CosTab == <<One, HalfSqrt3, Half, Zero, Neg(Half), Neg(HalfSqrt3),
            Neg(One), Neg(HalfSqrt3), Neg(Half), Zero, Half, HalfSqrt3>>
SinTab == <<Zero, Half, HalfSqrt3, One, HalfSqrt3, Half,
            Zero, Neg(Half), Neg(HalfSqrt3), Neg(One), Neg(HalfSqrt3), Neg(Half)>>

\* angle = 2 * math.pi * k * n / N, in twelfths of a turn, reduced to one turn
\* (N divides 12 for every N in Lengths, N >= 1)
Angle(k, n, N) == ((12 * k * n) \div N) % 12

Cos(angle) == CosTab[angle + 1]
Sin(angle) == SinTab[angle + 1]

----------------------------------------------------------------------------
(* dft(x): dft.py lines 8-29 *)

\* mutant of dft_acc0: the real accumulator starts at 1.0
dft_acc0_one == <<One, Zero>>

\* real = 0.0 ; imag = 0.0
dft_acc0 == <<Zero, Zero>>

\* mutant of dft_step: imag += x[n][0] * sin(angle), the inverse's sign
dft_step_plus(acc, xn, angle) ==
    <<Add(acc[1], Mul(xn[1], Cos(angle))),
      Add(acc[2], Mul(xn[1], Sin(angle)))>>

\* one pass of the inner loop body: the accumulators after sample xn
dft_step(acc, xn, angle) ==
    <<Add(acc[1], Mul(xn[1], Cos(angle))),
      Sub(acc[2], Mul(xn[1], Sin(angle)))>>

\* the accumulators of bin k after the samples x[0] .. x[n-1]
RECURSIVE dft_acc(_, _, _)
dft_acc(x, k, n) ==
    IF n = 0 THEN dft_acc0
    ELSE dft_step(dft_acc(x, k, n - 1), x[n], Angle(k, n - 1, Len(x)))

\* X[k] = (real, imag) for k in range(N); X[k] is at index k + 1
dft(x) == [k1 \in 1..Len(x) |-> dft_acc(x, k1 - 1, Len(x))]

\* the divisors of the divisions a call on a list of length N evaluates:
\* k * n / N is inside both loops
dft_divisors(N) == {N : kn \in (0..(N - 1)) \X (0..(N - 1))}

----------------------------------------------------------------------------
(* idft(X): dft.py lines 32-52 *)

idft_acc0 == <<Zero, Zero>>

\* the inner loop body; the imag accumulation is commented out in the code
idft_step(acc, Xk, angle) ==
    <<Add(acc[1], Sub(Mul(Xk[1], Cos(angle)), Mul(Xk[2], Sin(angle)))),
      acc[2]>>

RECURSIVE idft_acc(_, _, _)
idft_acc(XX, n, k) ==
    IF k = 0 THEN idft_acc0
    ELSE idft_step(idft_acc(XX, n, k - 1), XX[k], Angle(k - 1, n, Len(XX)))

\* mutant of idft_out: the normalisation by N is left out
idft_out_unnormalised(acc, N) == <<acc[1], acc[2]>>

\* x[n] = (real / N, imag / N)
idft_out(acc, N) == <<DivN(acc[1], N), DivN(acc[2], N)>>

idft(XX) ==
    [n1 \in 1..Len(XX) |-> idft_out(idft_acc(XX, n1 - 1, Len(XX)), Len(XX))]

\* mutant of idft_divisors: the factor 1 / N is computed once, before the loops
idft_divisors_hoisted(N) == {N}

\* the divisors a call evaluates: k * n / N in both loops, real / N and
\* imag / N in the outer loop
idft_divisors(N) ==
    {N : kn \in (0..(N - 1)) \X (0..(N - 1))} \cup {N : n \in 0..(N - 1)}

\* "ZeroDivisionError" when a division by zero is evaluated
Raises(divisors) == IF 0 \in divisors THEN "ZeroDivisionError" ELSE "none"

----------------------------------------------------------------------------
(* The complex-exponential forms dft_exp and idft_exp, which speedtest.py  *)
(* and test.py call and dft.py does not define: modelled from the          *)
(* specification's "exponential form" of each transform.                    *)

\* (ar + i*ai) * (br + i*bi)
CMul(a, b) ==
    <<Sub(Mul(a[1], b[1]), Mul(a[2], b[2])),
      Add(Mul(a[1], b[2]), Mul(a[2], b[1]))>>

CAdd(a, b) == <<Add(a[1], b[1]), Add(a[2], b[2])>>

\* e^(-i*angle) and e^(+i*angle)
ExpNeg(angle) == <<Cos(angle), Neg(Sin(angle))>>
ExpPos(angle) == <<Cos(angle), Sin(angle)>>

RECURSIVE dft_exp_acc(_, _, _)
dft_exp_acc(x, k, n) ==
    IF n = 0 THEN <<Zero, Zero>>
    ELSE CAdd(dft_exp_acc(x, k, n - 1),
              CMul(x[n], ExpNeg(Angle(k, n - 1, Len(x)))))

dft_exp(x) == [k1 \in 1..Len(x) |-> dft_exp_acc(x, k1 - 1, Len(x))]

RECURSIVE idft_exp_acc(_, _, _)
idft_exp_acc(XX, n, k) ==
    IF k = 0 THEN <<Zero, Zero>>
    ELSE CAdd(idft_exp_acc(XX, n, k - 1),
              CMul(XX[k], ExpPos(Angle(k - 1, n, Len(XX)))))

idft_exp(XX) ==
    [n1 \in 1..Len(XX) |->
        LET acc == idft_exp_acc(XX, n1 - 1, Len(XX))
        IN  <<DivN(acc[1], Len(XX)), DivN(acc[2], Len(XX))>>]

----------------------------------------------------------------------------
(* Inputs *)

ReVals == (-1)..MaxRe
ImVals == 0..MaxIm

\* the generated samples (real, imag)
Samples == {<<Num(r), Num(i)>> : r \in ReVals, i \in ImVals}

\* test1: samples = [(1, 0), (2, 0), (3, 0), (4, 0)]
test1_samples == <<<<Num(1), Num(0)>>, <<Num(2), Num(0)>>,
                   <<Num(3), Num(0)>>, <<Num(4), Num(0)>>>>

Inputs == UNION {[1..N -> Samples] : N \in Lengths} \cup {test1_samples}

\* samples with a non-finite component
NaNSamples == {<<r, i>> : r \in {Zero, One, NaN}, i \in {Zero, One, NaN}}

NaNInputs == UNION {[1..N -> NaNSamples] : N \in Lengths}

----------------------------------------------------------------------------
(* The calls.  pc is the position of the driver; raised is the exception a  *)
(* call ended with ("none" when it returned).                              *)

Init ==
    /\ samples \in Inputs
    /\ X = <<>>
    /\ x_inv = <<>>
    /\ X_exp = <<>>
    /\ raised = "none"
    /\ pc = "start"
    /\ y = <<>>
    /\ Y = <<>>
    /\ ab = <<0, 0>>
    /\ Z = <<>>

InitNaN ==
    /\ samples \in NaNInputs
    /\ X = <<>>
    /\ x_inv = <<>>
    /\ X_exp = <<>>
    /\ raised = "none"
    /\ pc = "start"
    /\ y = <<>>
    /\ Y = <<>>
    /\ ab = <<0, 0>>
    /\ Z = <<>>

\* test_dft: X = dft(samples)
CallDft ==
    /\ pc = "start"
    /\ raised' = Raises(dft_divisors(Len(samples)))
    /\ IF raised' = "none"
       THEN X' = dft(samples) /\ pc' = "dft"
       ELSE X' = X /\ pc' = "error"
    /\ UNCHANGED <<samples, x_inv, X_exp, y, Y, ab, Z>>

\* test_dft: x = idft(X)
CallIdft ==
    /\ pc = "dft"
    /\ raised' = Raises(idft_divisors(Len(X)))
    /\ IF raised' = "none"
       THEN x_inv' = idft(X) /\ pc' = "idft"
       ELSE x_inv' = x_inv /\ pc' = "error"
    /\ UNCHANGED <<samples, X, X_exp, y, Y, ab, Z>>

\* idft called on a coefficient list the caller supplies
CallIdftOnly ==
    /\ pc = "start"
    /\ raised' = Raises(idft_divisors(Len(samples)))
    /\ IF raised' = "none"
       THEN x_inv' = idft(samples) /\ pc' = "idft_only"
       ELSE x_inv' = x_inv /\ pc' = "error"
    /\ UNCHANGED <<samples, X, X_exp, y, Y, ab, Z>>

\* compare_time: X = dft.dft(x) and then X = dft.dft_exp(x)
CallDftExp ==
    /\ pc = "dft"
    /\ X_exp' = dft_exp(samples)
    /\ pc' = "dft_exp"
    /\ UNCHANGED <<samples, X, x_inv, raised, y, Y, ab, Z>>

\* the calls of a linearity check: dft(x), dft(y), dft(a*x + b*y)
LinSamples == {<<Num(1), Num(0)>>, <<Num(0), Num(1)>>, <<Num(-1), Num(2)>>}

LinInputs ==
    UNION {[1..N -> LinSamples] \X [1..N -> LinSamples] : N \in Lengths \ {0}}

Scalars == (-1)..MaxScalar

\* a*x + b*y, element by element, on the real and the imaginary parts
Combine(a, xx, b, yy) ==
    [i \in 1..Len(xx) |->
        <<Add(Mul(Num(a), xx[i][1]), Mul(Num(b), yy[i][1])),
          Add(Mul(Num(a), xx[i][2]), Mul(Num(b), yy[i][2]))>>]

InitLin ==
    /\ \E xy \in LinInputs : samples = xy[1] /\ y = xy[2]
    /\ X = <<>>
    /\ x_inv = <<>>
    /\ X_exp = <<>>
    /\ raised = "none"
    /\ pc = "lin"
    /\ Y = <<>>
    /\ ab = <<0, 0>>
    /\ Z = <<>>

LinDftX ==
    /\ pc = "lin"
    /\ X' = dft(samples)
    /\ pc' = "linX"
    /\ UNCHANGED <<samples, x_inv, X_exp, raised, y, Y, ab, Z>>

LinDftY ==
    /\ pc = "linX"
    /\ Y' = dft(y)
    /\ pc' = "linY"
    /\ UNCHANGED <<samples, X, x_inv, X_exp, raised, y, ab, Z>>

LinDftZ ==
    /\ pc = "linY"
    /\ \E a \in Scalars, b \in Scalars :
          /\ ab' = <<a, b>>
          /\ Z' = dft(Combine(a, samples, b, y))
    /\ pc' = "linZ"
    /\ UNCHANGED <<samples, X, x_inv, X_exp, raised, y, Y>>

NextLin == LinDftX \/ LinDftY \/ LinDftZ

SpecLin == InitLin /\ [][NextLin]_vars

Next == CallDft \/ CallIdft \/ CallIdftOnly \/ CallDftExp

Spec == Init /\ [][Next]_vars

SpecNaN == InitNaN /\ [][Next]_vars

----------------------------------------------------------------------------
(* The claims *)

\* the list idft was called on in the current state
IdftArg == IF pc = "idft" THEN X ELSE samples

RECURSIVE SumSeq(_)
SumSeq(s) == IF Len(s) = 0 THEN Zero ELSE Add(SumSeq(SubSeq(s, 1, Len(s) - 1)), s[Len(s)])

\* the reference forward sums of bin k over the full complex input
RefForward(x, k) ==
    LET N == Len(x)
        a(n) == Angle(k, n, N)
    IN  <<SumSeq([n1 \in 1..N |->
                 Add(Mul(x[n1][1], Cos(a(n1 - 1))), Mul(x[n1][2], Sin(a(n1 - 1))))]),
          SumSeq([n1 \in 1..N |->
                 Add(Neg(Mul(x[n1][1], Sin(a(n1 - 1)))), Mul(x[n1][2], Cos(a(n1 - 1))))])>>

\* the reference inverse sums (R/N, I/N) of index n
RefInverse(XX, n) ==
    LET N == Len(XX)
        a(k) == Angle(k, n, N)
    IN  <<DivN(SumSeq([k1 \in 1..N |->
                 Sub(Mul(XX[k1][1], Cos(a(k1 - 1))), Mul(XX[k1][2], Sin(a(k1 - 1))))]), N),
          DivN(SumSeq([k1 \in 1..N |->
                 Add(Mul(XX[k1][1], Sin(a(k1 - 1))), Mul(XX[k1][2], Cos(a(k1 - 1))))]), N)>>

HasNonFinite(s) == \E i \in 1..Len(s) : ~IsFinite(s[i][1]) \/ ~IsFinite(s[i][2])

IsRealSignal(s) == \A i \in 1..Len(s) : s[i][2] = Zero

\* C1: after test_dft's dft and idft, the reconstructed list equals the
\* samples in the real and the imaginary part of every index (N >= 1).
C1_RoundTrip ==
    (pc = "idft" /\ Len(samples) >= 1) => x_inv = samples

\* C2: every bin k of dft(x) equals the reference sums over the full complex
\* input, the imaginary parts of the samples included.
C2_ForwardResult ==
    pc = "dft" => \A k1 \in 1..Len(samples) : X[k1] = RefForward(samples, k1 - 1)

\* C3: every element n of idft(X) equals (R/N, I/N): both sums accumulated,
\* both divided by N.
C3_InverseResult ==
    pc \in {"idft", "idft_only"} =>
        \A n1 \in 1..Len(IdftArg) : x_inv[n1] = RefInverse(IdftArg, n1 - 1)

\* C4: the exponential form of each transform returns what the trigonometric
\* form returns: dft_exp(x) = dft(x) and idft_exp(X) = idft(X).
C4_ExpEquivalence ==
    /\ pc = "dft_exp" => X_exp = X
    /\ pc \in {"idft", "idft_only"} => x_inv = idft_exp(IdftArg)

\* C5: dft and idft return a list as long as their argument and never raise,
\* also for the empty list (no division by N = 0 is evaluated).
C5_LengthPreserved ==
    /\ raised = "none" /\ pc # "error"
    /\ pc \in {"dft", "dft_exp", "idft"} => Len(X) = Len(samples)
    /\ pc \in {"idft", "idft_only"} => Len(x_inv) = Len(IdftArg)

C5_Witness ==
    /\ pc = "idft" /\ samples = <<>> /\ x_inv = <<>> /\ raised = "none"

\* C6: a call of dft or idft on a list with a non-finite component is either
\* rejected or returns a list with a non-finite component.
C6_NonFiniteSurfaces ==
    /\ (pc = "dft" /\ HasNonFinite(samples)) =>
            (raised # "none" \/ HasNonFinite(X))
    /\ (pc = "idft_only" /\ HasNonFinite(samples)) =>
            (raised # "none" \/ HasNonFinite(x_inv))

\* C7: for test1's samples [(1,0), (2,0), (3,0), (4,0)], dft gives (10, 0) in
\* bin 0, (-2, 0) in bin 2, (-2, 2) in bin 1 and its conjugate (-2, -2) in bin 3.
C7_Scenario1 ==
    (pc = "dft" /\ samples = test1_samples) =>
        /\ X[1] = <<Num(10), Num(0)>>
        /\ X[3] = <<Num(-2), Num(0)>>
        /\ X[2] = <<Num(-2), Num(2)>>
        /\ X[4] = <<Num(-2), Num(-2)>>
        /\ X[4] = <<X[2][1], Neg(X[2][2])>>

C7_Witness == pc = "dft" /\ samples = test1_samples /\ Len(X) = 4

\* C8: dft(a*x + b*y) = a*dft(x) + b*dft(y) at every bin, in both parts.
C8_Linearity ==
    pc = "linZ" => Z = Combine(ab[1], X, ab[2], Y)

C8_Witness ==
    /\ pc = "linZ" /\ Len(samples) = 3 /\ ab = <<-1, 1>>
    /\ samples # y
    /\ \E k1 \in 1..3 : Z[k1][2][2] # 0

\* C9: for a constant input x[n] = (cr, ci), N >= 1, bin 0 of dft(x) is
\* (N*cr, N*ci) and every other bin is (0, 0).
C9_DCComponent ==
    (pc = "dft" /\ Len(samples) >= 1
        /\ \A i \in 1..Len(samples) : samples[i] = samples[1]) =>
        /\ X[1] = <<Mul(Num(Len(samples)), samples[1][1]),
                    Mul(Num(Len(samples)), samples[1][2])>>
        /\ \A k1 \in 2..Len(samples) : X[k1] = <<Zero, Zero>>

\* C10: for samples whose imaginary parts are all 0 (N >= 1), idft(dft(x))
\* has real parts equal to the samples' and imaginary parts 0.
C10_RealRoundTrip ==
    (pc = "idft" /\ Len(samples) >= 1 /\ IsRealSignal(samples)) =>
        \A n1 \in 1..Len(samples) :
            x_inv[n1][1] = samples[n1][1] /\ x_inv[n1][2] = Zero

C10_Witness ==
    /\ pc = "idft" /\ Len(samples) = 3 /\ IsRealSignal(samples)
    /\ samples[1] # samples[2] /\ samples[2] # samples[3]
    /\ x_inv = samples

====
